---- MODULE Spec2Model ----
(***************************************************************************)
(* Model of the sequence alignment and coordinate remapping code of        *)
(* StarMapper / RNAvigate:                                                 *)
(*   Data.__init__, Data.read_fasta, Data.get_alignment_map (data.py),     *)
(*   get_sequence (rnavigate.py) and AP.plot_profile (plots/arc.py),       *)
(*     specification Spec;                                                 *)
(*   Sample.__init__, set_data, init_dance, get_data (rnavigate.py),       *)
(*     specification SpecSample;                                           *)
(*   create_data and get_sequence (rnavigate.py), specification SpecCalls; *)
(*   fit_data (rnavigate.py, plotting_functions.py) and AP.add_patches     *)
(*     (plots/arc.py), specification SpecFit;                              *)
(*   plot_arcs and plot_alignment (rnavigate.py, plotting_functions.py)    *)
(*     with Plot.get_ax (plots/plots.py), specification SpecPlots.         *)
(* Sequences are tuples of one-character strings.  Scores are kept in      *)
(* tenths so that the gap extension penalty 0.1 is the integer 1.          *)
(***************************************************************************)
EXTENDS Integers, Sequences, FiniteSets, TLC

\* ------------------------------------------------------------------ bounds
\* longest raw input string that Init draws
MaxLen == 3

\* ------------------------------------------------------------- constants
\* characters of the raw strings a profile's sequence is built from
ProfileChars == {"A", "U", "t", "N"}
\* characters of the sequence record of the ct's file
CtChars == {"A", "U"}
\* the gap character of Bio.pairwise2
Gap == "-"
\* align.globalxs: "x" = a match scores 1, a mismatch 0 (in tenths)
MatchScore == 10
MismatchScore == 0
\* align.globalxs(..., -1, -0.1): gap open and gap extension (in tenths)
\* faulty variant of GapOpen: the gap open penalty given as 0.1
GapOpenTenth == 0 - 1
GapOpen == 0 - 10
GapExtend == 0 - 1
\* a score no alignment has
NegInf == 0 - 100000
\* np.nan in the arrays of plot_profile (values are positions >= 1)
NaN == 0
\* a field that holds no object
Unset == <<"unset">>
\* the variable alignment while no alignment was returned
NoAlignment == [seqA |-> <<>>, seqB |-> <<>>, score |-> 0]

\* the end-to-end example of the specification
ExampleSource == <<"A","U","C","U","G","G","C","U","A">>
ExampleTarget == <<"A","U","C","G","U","G","C","U","A">>

\* --------------------------------------------------------------- helpers
Max(a, b) == IF a >= b THEN a ELSE b

\* all strings over the characters cs of length 0..n
RECURSIVE StringsUpTo(_, _)
StringsUpTo(cs, n) ==
    IF n = 0 THEN {<<>>}
    ELSE LET shorter == StringsUpTo(cs, n - 1)
         IN  shorter \cup {Append(s, c) : s \in {t \in shorter : Len(t) = n - 1}, c \in cs}

ProfileStrings == StringsUpTo(ProfileChars, MaxLen)
CtStrings == StringsUpTo(CtChars, MaxLen)

\* str.upper() on one character
Upper(c) ==
    CASE c = "a" -> "A"
      [] c = "u" -> "U"
      [] c = "c" -> "C"
      [] c = "g" -> "G"
      [] c = "t" -> "T"
      [] c = "n" -> "N"
      [] OTHER -> c

\* str(fasta[0].seq).upper().replace("T", "U")
Normalize(s) ==
    [k \in 1..Len(s) |-> IF Upper(s[k]) = "T" THEN "U" ELSE Upper(s[k])]

\* faulty variant of ValidChars: N is accepted as well
ValidCharsWithN(s) ==
    \A k \in 1..Len(s) : Upper(s[k]) \in {"A", "U", "C", "G", "T", ".", "N"}

\* all([nt.upper() in "AUCGT." for nt in seq_source])
ValidChars(s) ==
    \A k \in 1..Len(s) : Upper(s[k]) \in {"A", "U", "C", "G", "T", "."}

\* ------------------------------------------------- Bio.pairwise2 globalxs
\* faulty variant of MatchFn: identical characters score like a mismatch
MatchFnNeutral(x, y) == MismatchScore

\* match function of the "x" scoring: identical characters score 1
MatchFn(x, y) == IF x = y THEN MatchScore ELSE MismatchScore

\* A cell of the score matrix holds the best score of aligning a[1..i] with
\* b[1..j] by the kind of its last column:
\*   [1] both characters, [2] gap in sequence A, [3] gap in sequence B.
CellBest(c) == Max(c[1], Max(c[2], c[3]))

\* position of cell (i, j) in the row-major table of a (n+1) x (m+1) matrix
CellAt(T, m, i, j) == T[i * (m + 1) + j + 1]

\* score of cell (i, j) from the cells before it; penalize_end_gaps=False
\* makes a gap column free before the first and after the last character
\* of the other sequence
ScoreCell(a, b, T, i, j) ==
    LET n == Len(a)
        m == Len(b)
        diag == IF i >= 1 /\ j >= 1
                THEN CellBest(CellAt(T, m, i - 1, j - 1)) + MatchFn(a[i], b[j])
                ELSE NegInf
        left == CellAt(T, m, i, j - 1)
        gapA == IF j = 0 THEN NegInf
                ELSE IF i = 0 \/ i = n THEN CellBest(left)
                ELSE Max(Max(left[1], left[3]) + GapOpen, left[2] + GapExtend)
        up   == CellAt(T, m, i - 1, j)
        gapB == IF i = 0 THEN NegInf
                ELSE IF j = 0 \/ j = m THEN CellBest(up)
                ELSE Max(Max(up[1], up[2]) + GapOpen, up[3] + GapExtend)
    IN  IF i = 0 /\ j = 0 THEN <<0, NegInf, NegInf>>
        ELSE <<diag, gapA, gapB>>

\* the score matrix, filled row by row; T holds the cells filled so far
RECURSIVE FillMatrix(_, _, _)
FillMatrix(a, b, T) ==
    LET m == Len(b)
        k == Len(T)
    IN  IF k = (Len(a) + 1) * (m + 1) THEN T
        ELSE FillMatrix(a, b, Append(T, ScoreCell(a, b, T, k \div (m + 1), k % (m + 1))))

ScoreMatrix(a, b) == FillMatrix(a, b, <<>>)

\* kinds of last column with which cell c reaches its best score
BestKinds(c) == {k \in 1..3 : c[k] = CellBest(c) /\ c[k] > NegInf \div 2}

\* the alignments of a[1..i] and b[1..j] whose last column is of kind k and
\* whose score is the one the matrix holds: tuples of columns <<x, y>>
RECURSIVE Traceback(_, _, _, _, _, _)
Traceback(a, b, T, i, j, k) ==
    LET n == Len(a)
        m == Len(b)
        here == CellAt(T, m, i, j)
        From(pi, pj, kinds, col) ==
            UNION {{Append(p, col) : p \in Traceback(a, b, T, pi, pj, pk)} : pk \in kinds}
    IN  IF i = 0 /\ j = 0 THEN {<<>>}
        ELSE IF k = 1 THEN
            From(i - 1, j - 1, BestKinds(CellAt(T, m, i - 1, j - 1)), <<a[i], b[j]>>)
        ELSE IF k = 2 THEN
            LET left == CellAt(T, m, i, j - 1)
                kinds == IF i = 0 \/ i = n THEN BestKinds(left)
                         ELSE {pk \in {1, 3} : left[pk] + GapOpen = here[2]}
                              \cup {pk \in {2} : left[pk] + GapExtend = here[2]}
            IN  From(i, j - 1, {pk \in kinds : left[pk] > NegInf \div 2}, <<Gap, b[j]>>)
        ELSE
            LET up == CellAt(T, m, i - 1, j)
                kinds == IF j = 0 \/ j = m THEN BestKinds(up)
                         ELSE {pk \in {1, 2} : up[pk] + GapOpen = here[3]}
                              \cup {pk \in {3} : up[pk] + GapExtend = here[3]}
            IN  From(i - 1, j, {pk \in kinds : up[pk] > NegInf \div 2}, <<a[i], Gap>>)

\* faulty variant of Globalxs: empty sequences are aligned like any other
GlobalxsNoEmptyCheck(a, b) ==
    LET T == ScoreMatrix(a, b)
        last == CellAt(T, Len(b), Len(a), Len(b))
        cols == UNION {Traceback(a, b, T, Len(a), Len(b), k) : k \in BestKinds(last)}
    IN  {[seqA |-> [c \in 1..Len(al) |-> al[c][1]],
          seqB |-> [c \in 1..Len(al) |-> al[c][2]],
          score |-> CellBest(last)] : al \in cols}

\* align.globalxs(a, b, -1, -0.1, penalize_end_gaps=False): the list of
\* best-scoring alignments as records (seqA, seqB, score); empty when either
\* sequence is empty.  The order of equally scoring alignments is the
\* library's choice, so the list is modelled as a set.
Globalxs(a, b) ==
    IF Len(a) = 0 \/ Len(b) = 0 THEN {}
    ELSE LET T == ScoreMatrix(a, b)
             last == CellAt(T, Len(b), Len(a), Len(b))
             cols == UNION {Traceback(a, b, T, Len(a), Len(b), k) : k \in BestKinds(last)}
         IN  {[seqA |-> [c \in 1..Len(al) |-> al[c][1]],
               seqB |-> [c \in 1..Len(al) |-> al[c][2]],
               score |-> CellBest(last)] : al \in cols}

\* ------------------------------------------------ Data.get_alignment_map
\* faulty variant of WalkStep: i += 1 missing after alignment_map.append(i)
WalkStepNoIncrement(nt1, nt2, i, am) ==
    IF nt1 = Gap THEN <<i + 1, Append(am, 0)>>
    ELSE IF nt2 = Gap THEN <<i, am>>
    ELSE <<i, Append(am, i)>>

\* faulty variant of WalkStep: a target gap records the counter instead of
\* being skipped
WalkStepTargetGapRecorded(nt1, nt2, i, am) ==
    IF nt1 = Gap THEN <<i + 1, Append(am, 0)>>
    ELSE IF nt2 = Gap THEN <<i, Append(am, i)>>
    ELSE <<i + 1, Append(am, i)>>

\* faulty variant of WalkStep: the counter advances on a target gap, so
\* that it counts the positions of the source
WalkStepTargetGapCounted(nt1, nt2, i, am) ==
    IF nt1 = Gap THEN <<i, Append(am, 0)>>
    ELSE IF nt2 = Gap THEN <<i + 1, am>>
    ELSE <<i + 1, Append(am, i)>>

\* one pass of the loop body over a column (nt1, nt2): the counter i and
\* the list alignment_map after it
WalkStep(nt1, nt2, i, am) ==
    IF nt1 = Gap THEN <<i + 1, Append(am, 0)>>
    ELSE IF nt2 = Gap THEN <<i, am>>
    ELSE <<i + 1, Append(am, i)>>

\* for nt1, nt2 in zip(alignment[0].seqA, alignment[0].seqB), from column c
RECURSIVE WalkColumns(_, _, _, _, _)
WalkColumns(seqA, seqB, c, i, am) ==
    IF c > Len(seqA) \/ c > Len(seqB) THEN am
    ELSE LET st == WalkStep(seqA[c], seqB[c], i, am)
         IN  WalkColumns(seqA, seqB, c + 1, st[1], st[2])

\* alignment_map = [0]; i = 1; the loop; return alignment_map
AlignmentMapOf(al) == WalkColumns(al.seqA, al.seqB, 1, 1, <<0>>)

\* ------------------------------------------------------- AP.plot_profile
\* profile.data.loc[label, column] of a profile of n nucleotides whose rows
\* carry the labels base..base+n-1: the nucleotide position of the row (its
\* value stands for itself), or 0 when no row has the label (KeyError)
Loc(label, base, n) ==
    IF label >= base /\ label <= base + n - 1 THEN label - base + 1 ELSE 0

\* one pass of the loop body for (i1, i2) of enumerate(am) on the state
\* st = [values, yerr, written, err] of the call
ScatterStep(st, i1, i2, base, n, ctlen, stderr) ==
    IF st.err # "none" \/ i2 = 0 - 1 THEN st
    ELSE IF Loc(i1, base, n) = 0 THEN [st EXCEPT !.err = "KeyError"]
    ELSE IF i2 < 0 - ctlen \/ i2 >= ctlen
         THEN [st EXCEPT !.err = "IndexError", !.written = Append(@, i2)]
    ELSE LET at == IF i2 < 0 THEN i2 + ctlen ELSE i2
         IN  [st EXCEPT !.values[at] = Loc(i1, base, n),
                        !.yerr[at] = IF stderr THEN Loc(i1, base, n) ELSE @,
                        !.written = Append(@, i2)]

\* for i1, i2 in enumerate(am), from list index i1
RECURSIVE Scatter(_, _, _, _, _, _, _)
Scatter(st, am, i1, base, n, ctlen, stderr) ==
    IF i1 >= Len(am) THEN st
    ELSE Scatter(ScatterStep(st, i1, am[i1 + 1], base, n, ctlen, stderr),
                 am, i1 + 1, base, n, ctlen, stderr)

\* values = np.full(ct.length, np.nan); yerr likewise; then the loop
ScatterProfile(am, base, n, ctlen, stderr) ==
    Scatter([values |-> [k \in 0..(ctlen - 1) |-> NaN],
             yerr |-> [k \in 0..(ctlen - 1) |-> NaN],
             written |-> <<>>, err |-> "none"],
            am, 0, base, n, ctlen, stderr)

\* ----------------------------------------------------------------- state
VARIABLES
    in_profile,     \* raw string the profile's sequence is built from
    in_ct,          \* raw string of the first record of the ct's file
    route,          \* how the profile's sequence object was built
    sequence,       \* sequence[o]: the attribute o.sequence, o in Objs
    alignment,      \* alignment[0] of the last get_alignment_map call
    alignment_map,  \* the list the last get_alignment_map call returned
    values,         \* the array values of plot_profile after its loop
    yerr,           \* the array yerr of plot_profile after its loop
    written,        \* the indices i2 plot_profile wrote at, in order
    err,            \* the exception the last call raised, or "none"
    pc              \* the last operation carried out

plot_vars == <<in_profile, in_ct, route, sequence, alignment, alignment_map,
               values, yerr, written, err, pc>>

\* the Samples of rnavigate.py, named by their labels
VARIABLES
    constructed,    \* the Samples that exist
    data,           \* data[s]: the dict s.data, keyword to Data object
    inputs,         \* inputs[s]: the dict s.inputs, keyword to kwargs
    parent,         \* parent[s]: s.parent, a Sample or "None"
    dance,          \* dance[s]: the list s.dance
    inherit,        \* inherit[s]: the argument inherit s was constructed with
    created,        \* how many Data objects were instantiated so far
    call            \* the last call: its arguments and what it did

sample_vars == <<constructed, data, inputs, parent, dance, inherit, created, call>>

\* fit_data and AP.add_patches
VARIABLES
    first_alignment,    \* the map from the data's sequence to fit_to
    second_alignment,   \* the argument second_alignment of fit_data
    data_list,          \* the argument data_list of the last fit_data call
    fitted,             \* the last fit_data call: module, exception, result
    region,             \* self.region of the plot
    patches             \* the wedges the last add_patches call collected

fit_vars == <<first_alignment, second_alignment, data_list, fitted, region, patches>>

VARIABLES
    figure,         \* the Plot object of the last plotting call: length,
                    \* rows, columns and the panel counter i
    panels,         \* the plot_data calls of that plot, in order: sample and
                    \* filter drawn, and the row and column of the axis
    aligned,        \* the two data objects the Alignment plot's plot_data
                    \* was called with
    plotted         \* the last plotting call: function, module, arguments,
                    \* exception

grid_vars == <<figure, panels, aligned, plotted>>

other_vars == <<sample_vars, fit_vars, grid_vars>>

vars == <<plot_vars, other_vars>>

\* the longest sequence fit_data is given, and the most pairs of a Data
FitLen == 3
MaxPairs == 2

\* An argument of fit_data is an item [kind, pairs, elems]: kind "data" (a
\* data.Sequence that holds the pairs (i, j)), "pdb" (a data.PDB), "none"
\* (None), "other" (any other object), or "dict" or "list" (a container
\* of the items elems).
Leaf(kind, pairs) == [kind |-> kind, pairs |-> pairs, elems |-> <<>>]
Container(kind, elems) == [kind |-> kind, pairs |-> {}, elems |-> elems]
NoneItem == Leaf("none", {})

\* an alignment is the index map of positions 0..FitLen it stands for
Identity == [i \in 0..FitLen |-> i]
NoSecond == [given |-> FALSE, map |-> [i \in 0..FitLen |-> 0]]
Second(m) == [given |-> TRUE, map |-> m]

\* fit_data and add_patches were not called
NothingFitted ==
    /\ first_alignment = Identity
    /\ second_alignment = NoSecond
    /\ data_list = NoneItem
    /\ fitted = [module |-> "none", err |-> "none", out |-> NoneItem,
                 alignment |-> Identity]
    /\ region = <<1, FitLen>>
    /\ patches = {}

Samples == {"P", "S"}

\* no Sample exists, nothing was called
\* no plotting function has been called
NoFigure == [columns |-> 0, i |-> 0, length |-> 0, rows |-> 0]
NoPair == <<>>
NothingPlotted ==
    /\ figure = NoFigure
    /\ panels = <<>>
    /\ aligned = NoPair
    /\ plotted = [data1 |-> <<>>, data2 |-> <<>>, err |-> "none", filters |-> 0,
                  module |-> "none", op |-> "none",
                  plot_kwargs |-> [cols |-> 0, given |-> FALSE, rows |-> 0],
                  samples |-> 0]

NoSamples ==
    /\ constructed = {}
    /\ data = [s \in Samples |-> {}]
    /\ inputs = [s \in Samples |-> {}]
    /\ parent = [s \in Samples |-> "None"]
    /\ dance = [s \in Samples |-> <<>>]
    /\ inherit = [s \in Samples |-> "None"]
    /\ created = 0
    /\ call = [op |-> "none", self |-> "None", name |-> "None",
               arg |-> [tag |-> "none", val |-> "", items |-> {}],
               more |-> [tag |-> "none", val |-> "", items |-> {}],
               overwrite |-> FALSE, err |-> "none", ret |-> "None",
               cls |-> "None", args |-> {}]

Objs == {"profile", "ct"}

Init ==
    /\ \/ in_profile \in ProfileStrings /\ in_ct \in CtStrings
       \/ in_profile = ExampleSource /\ in_ct = ExampleTarget
    /\ route = "none"
    /\ sequence = [o \in Objs |-> Unset]
    /\ alignment = NoAlignment
    /\ alignment_map = Unset
    /\ values = Unset
    /\ yerr = Unset
    /\ written = <<>>
    /\ err = "none"
    /\ pc = "start"
    /\ NoSamples
    /\ NothingFitted
    /\ NothingPlotted

\* ------------------------------------------------------------ operations
\* Data(sequence=raw): self.sequence = sequence
DataInitSequence ==
    /\ pc = "start"
    /\ sequence' = [sequence EXCEPT !["profile"] = in_profile]
    /\ route' = "sequence"
    /\ pc' = "profile_built"
    /\ UNCHANGED <<in_profile, in_ct, alignment, alignment_map, values, yerr,
                   written, err>>
    /\ UNCHANGED other_vars

\* Data(fasta=path): read_fasta stores the first record, normalized
\* (self.gene, which no operation reads, is left out)
DataInitFasta(o) ==
    /\ pc = IF o = "profile" THEN "start" ELSE "profile_built"
    /\ sequence' = [sequence EXCEPT
                      ![o] = Normalize(IF o = "profile" THEN in_profile ELSE in_ct)]
    /\ route' = IF o = "profile" THEN "fasta" ELSE route
    /\ pc' = IF o = "profile" THEN "profile_built" ELSE "ready"
    /\ UNCHANGED <<in_profile, in_ct, alignment, alignment_map, values, yerr,
                   written, err>>
    /\ UNCHANGED other_vars

\* get_sequence(seq_source) with a string that is no key of sample.data
GetSequence ==
    /\ pc = "start"
    /\ route' = "get_sequence"
    /\ IF ValidChars(in_profile)
       THEN /\ sequence' = [sequence EXCEPT !["profile"] = in_profile]
            /\ pc' = "profile_built"
            /\ err' = err
       ELSE /\ sequence' = sequence
            /\ pc' = "get_sequence"
            /\ err' = "ValueError"
    /\ UNCHANGED <<in_profile, in_ct, alignment, alignment_map, values, yerr,
                   written>>
    /\ UNCHANGED other_vars

\* profile.get_alignment_map(ct)
GetAlignmentMap ==
    /\ pc = "ready"
    /\ pc' = "get_alignment_map"
    /\ LET found == Globalxs(sequence["profile"], sequence["ct"])
       IN  IF found = {}
           THEN /\ err' = "IndexError"
                /\ UNCHANGED <<alignment, alignment_map>>
           ELSE /\ \E al \in found :
                      /\ alignment' = al
                      /\ alignment_map' = AlignmentMapOf(al)
                /\ err' = err
    /\ UNCHANGED <<in_profile, in_ct, route, sequence, values, yerr, written>>
    /\ UNCHANGED other_vars

\* AP.plot_profile(ax, profile, ct); given = FALSE is profile=None
PlotProfile ==
    /\ pc = "ready"
    /\ pc' = "plot_profile"
    /\ \E given \in BOOLEAN, base \in {0, 1}, stderr \in BOOLEAN :
         IF ~given
         THEN UNCHANGED <<alignment, alignment_map, values, yerr, written, err>>
         ELSE LET found == Globalxs(sequence["profile"], sequence["ct"])
              IN  IF found = {}
                  THEN /\ err' = "IndexError"
                       /\ UNCHANGED <<alignment, alignment_map, values, yerr, written>>
                  ELSE \E al \in found :
                         LET am == AlignmentMapOf(al)
                             st == ScatterProfile(am, base, Len(sequence["profile"]),
                                                  Len(sequence["ct"]), stderr)
                         IN  /\ alignment' = al
                             /\ alignment_map' = am
                             /\ written' = st.written
                             /\ err' = st.err
                             /\ values' = IF st.err = "none" THEN st.values ELSE Unset
                             /\ yerr' = IF st.err = "none" THEN st.yerr ELSE Unset
    /\ UNCHANGED <<in_profile, in_ct, route, sequence>>
    /\ UNCHANGED other_vars

Next ==
    \/ DataInitSequence
    \/ DataInitFasta("profile")
    \/ DataInitFasta("ct")
    \/ GetSequence
    \/ GetAlignmentMap
    \/ PlotProfile

Spec == Init /\ [][Next]_vars

\* ======================================================================
\* Sample, create_data, get_sequence (rnavigate.py)
\* ======================================================================
\* the element of a set of one element
The(S) == CHOOSE y \in S : TRUE

\* A dict is a set of pairs <<key, value>> with at most one pair per key;
\* keys and values are strings.
Has(d, k) == \E p \in d : p[1] = k
Get(d, k) == (CHOOSE p \in d : p[1] = k)[2]
Put(d, k, v) == {p \in d : p[1] # k} \cup {<<k, v>>}
Pop(d, k) == {p \in d : p[1] # k}
\* a | b
Merge(a, b) == {p \in a : ~Has(b, p[1])} \cup b
Keys(d) == {p[1] : p \in d}

\* the identities of Data objects, in the order they are created
ObjectIds == <<"d1", "d2", "d3", "d4", "d5", "d6", "d7", "d8">>
AllObjects == {ObjectIds[k] : k \in 1..Len(ObjectIds)}

\* An argument is a record: tag "data" (a Data object, val its identity),
\* "str" (val the string), "dict" (items the dict), "list" (an unhashable
\* container), "none" (None) or "required" (the module's _required object).
StrArg(x) == [tag |-> "str", val |-> x, items |-> {}]
DictArg(d) == [tag |-> "dict", val |-> "", items |-> d]
DataArg(id) == [tag |-> "data", val |-> id, items |-> {}]
ListArg == [tag |-> "list", val |-> "", items |-> {}]
NoneArg == [tag |-> "none", val |-> "", items |-> {}]
\* a value of a dict read as an argument
ValueArg(v) ==
    IF v \in AllObjects THEN DataArg(v)
    ELSE IF v = "_required" THEN [tag |-> "required", val |-> v, items |-> {}]
    ELSE StrArg(v)

\* data_keyword_defaults
ClassNames == {"data.Sequence", "data.Log", "data.SHAPEMaP", "data.DanceMaP",
               "data.RNPMaP", "data.RINGMaP", "data.PAIRMaP", "data.SHAPEJuMP",
               "data.PairingProbability", "data.SecondaryStructure", "data.PDB",
               "data.AllPossible", "data.Motif", "data.ORFs", "data.Annotation"}

data_keyword_defaults ==
    { <<"fasta",       {<<"data_class", "data.Sequence">>}>>,
      <<"log",         {<<"data_class", "data.Log">>}>>,
      <<"shapemap",    {<<"data_class", "data.SHAPEMaP">>}>>,
      <<"dmsmap",      {<<"data_class", "data.SHAPEMaP">>, <<"dms", "True">>}>>,
      <<"dancemap",    {<<"data_class", "data.DanceMaP">>, <<"component", "_required">>}>>,
      <<"rnpmap",      {<<"data_class", "data.RNPMaP">>}>>,
      <<"ringmap",     {<<"data_class", "data.RINGMaP">>, <<"seq_source", "profile">>}>>,
      <<"pairmap",     {<<"data_class", "data.PAIRMaP">>, <<"seq_source", "profile">>}>>,
      <<"allcorrs",    {<<"data_class", "data.RINGMaP">>, <<"seq_source", "profile">>}>>,
      <<"shapejump",   {<<"data_class", "data.SHAPEJuMP">>}>>,
      <<"pairprob",    {<<"data_class", "data.PairingProbability">>,
                        <<"seq_source", "profile">>}>>,
      <<"ss",          {<<"data_class", "data.SecondaryStructure">>}>>,
      <<"pdb",         {<<"data_class", "data.PDB">>, <<"chain", "_required">>}>>,
      <<"allpossible", {<<"data_class", "data.AllPossible">>,
                        <<"seq_source", "_required">>}>>,
      <<"motif",       {<<"data_class", "data.Motif">>, <<"seq_source", "_required">>,
                        <<"color", "_required">>}>>,
      <<"orfs",        {<<"data_class", "data.ORFs">>, <<"seq_source", "_required">>,
                        <<"color", "_required">>}>>,
      <<"spans",       {<<"data_class", "data.Annotation">>, <<"seq_source", "_required">>,
                        <<"color", "_required">>}>>,
      <<"sites",       {<<"data_class", "data.Annotation">>, <<"seq_source", "_required">>,
                        <<"color", "_required">>}>>,
      <<"groups",      {<<"data_class", "data.Annotation">>, <<"seq_source", "_required">>}>>,
      <<"primers",     {<<"data_class", "data.Annotation">>, <<"seq_source", "_required">>,
                        <<"color", "_required">>}>> }

\* the characters of the strings that get_sequence is given
CharsOf(str) ==
    CASE str = "AUCG" -> <<"A", "U", "C", "G">>
      [] str = "ct" -> <<"c", "t">>
      [] str = "profile" -> <<"p", "r", "o", "f", "i", "l", "e">>
      [] str = "shapemap" -> <<"s", "h", "a", "p", "e", "m", "a", "p">>
      [] str = "AUNG" -> <<"A", "U", "N", "G">>
      [] OTHER -> <<"?">>

\* the object data.Data(sequence=str) built from a literal string
LiteralData(str) ==
    CASE str = "AUCG" -> "Data(AUCG)"
      [] str = "ct" -> "Data(ct)"
      [] OTHER -> "Data(...)"

\* the argument sample: None, or a Sample whose data registry is d
NoSample == [is_none |-> TRUE, data |-> {}]
SampleWith(d) == [is_none |-> FALSE, data |-> d]

\* get_sequence(seq_source, sample, default) of rnavigate.py.  The result is
\* [err, ret]: the exception raised or "none", and the object returned.
GetSequenceOf(seq_source, sample, default) ==
    IF seq_source.tag = "none" /\ default.tag = "none"
    THEN [err |-> "ValueError", ret |-> "None"]
    ELSE LET src == IF seq_source.tag = "none" THEN default ELSE seq_source
         IN  IF src.tag = "data" THEN [err |-> "none", ret |-> src.val]
             ELSE IF sample.is_none
                  THEN [err |-> "AttributeError", ret |-> "None"]
             ELSE IF src.tag \in {"list", "dict"}
                  THEN [err |-> "TypeError", ret |-> "None"]
             ELSE IF src.tag = "str" /\ Has(sample.data, src.val)
                  THEN [err |-> "none", ret |-> Get(sample.data, src.val)]
             ELSE IF src.tag = "required"
                  THEN [err |-> "TypeError", ret |-> "None"]
             ELSE IF ValidChars(CharsOf(src.val))
                  THEN [err |-> "none", ret |-> LiteralData(src.val)]
             ELSE [err |-> "ValueError", ret |-> "None"]

\* ---- create_data, one stage per block of the function.  A stage takes and
\* returns [err, items]: the exception raised so far or "none", and the
\* dict that the local name inputs is bound to.
Failed(e, d) == [err |-> e, items |-> d]
Passed(d) == [err |-> "none", items |-> d]

\* "convert case 1 or 2 into case 3" (lines 131-144).
CaseThree(name, kwargs) ==
    IF kwargs.tag # "dict"
    THEN IF Has(data_keyword_defaults, name)
         THEN Passed({<<"data_keyword", name>>, <<"input_data", kwargs.val>>})
         ELSE Failed("TypeError", {})
    ELSE IF /\ Has(data_keyword_defaults, name)
            /\ ~Has(kwargs.items, name)
            /\ ~Has(kwargs.items, "data_keyword")
         THEN Passed(Put(kwargs.items, "data_keyword", name))
         ELSE LET kws == {kw \in Keys(kwargs.items) : Has(data_keyword_defaults, kw)}
              IN  IF kws = {} THEN Passed(kwargs.items)
                  ELSE LET kw == CHOOSE k \in kws : TRUE
                       IN  Passed(Put(Put(Pop(kwargs.items, kw), "data_keyword", kw),
                                      "input_data", Get(kwargs.items, kw)))

\* lines 145-146
AllPossibleSource(r) ==
    IF r.err # "none" THEN r
    ELSE IF ~Has(r.items, "data_keyword") THEN Failed("KeyError", r.items)
    ELSE IF Get(r.items, "data_keyword") # "allpossible" THEN r
    ELSE IF ~Has(r.items, "input_data") THEN Failed("KeyError", r.items)
    ELSE Passed(Put(Pop(r.items, "input_data"), "seq_source", Get(r.items, "input_data")))

\* inputs[new] = inputs.pop(old) when old is a key
Rename(d, old, new) == IF Has(d, old) THEN Put(Pop(d, old), new, Get(d, old)) ELSE d

\* lines 149-153
AltInputNames(r) ==
    IF r.err # "none" THEN r
    ELSE Passed(The({Rename(d2, "fasta", "sequence") :
                        d2 \in {Rename(d1, "dataframe", "input_data") :
                                  d1 \in {Rename(r.items, "filepath", "input_data")}}}))

\* line 156: what is left in the caller's dict once data_keyword is popped
PopKeyword(r) == IF r.err # "none" THEN r ELSE Passed(Pop(r.items, "data_keyword"))

\* lines 156-162; kw is the popped data_keyword
WithDefaults(r, kw) ==
    IF r.err # "none" THEN r
    ELSE IF ~Has(data_keyword_defaults, kw) THEN Failed("KeyError", r.items)
    ELSE Passed(Merge(Get(data_keyword_defaults, kw), r.items))

\* lines 165-169
SequenceFromSource(r, sample) ==
    IF r.err # "none" THEN r
    ELSE IF Has(r.items, "seq_source") /\ ~Has(r.items, "sequence")
         THEN The({IF got.err # "none" THEN Failed(got.err, r.items)
                   ELSE Passed(Put(Pop(r.items, "seq_source"), "sequence", got.ret)) :
                       got \in {GetSequenceOf(ValueArg(Get(r.items, "seq_source")),
                                              sample, NoneArg)}})
         ELSE Passed(Pop(r.items, "seq_source"))

\* lines 172-179
RequiredArguments(d) == {p[1] : p \in {q \in d : q[2] = "_required"}}
CheckRequired(r) ==
    IF r.err # "none" THEN r
    ELSE IF RequiredArguments(Pop(r.items, "data_class")) # {}
         THEN Failed("ValueError", r.items)
    ELSE r

\* create_data(sample, name=kwargs).  The result is [err, made, obj, cls,
\* args, left]: the exception or "none"; made is "given" when kwargs, the
\* object obj, is returned itself, "new" when the data class cls is called
\* with keyword arguments args, else "nothing"; left is what the caller's
\* argument holds afterwards (a dict is changed in place up to line 156).
NoResult(e, left) ==
    [err |-> e, made |-> "nothing", obj |-> "None", cls |-> "None", args |-> {},
     left |-> left]

\* what the caller's argument holds once data_keyword is popped
LeftOf(kwargs, inplace) ==
    IF kwargs.tag = "dict" THEN DictArg(inplace.items) ELSE kwargs

\* lines 156-179: the defaults, the sequence and the required arguments
Completed(sample, inplace, kw) ==
    {CheckRequired(sourced) :
        sourced \in {SequenceFromSource(merged, sample) :
                        merged \in {WithDefaults(inplace, kw)}}}

\* lines 182-186: the data class is called
Instantiated(full, left) ==
    IF full.err # "none" THEN NoResult(full.err, left)
    ELSE IF Get(full.items, "data_class") \notin ClassNames
         THEN NoResult("TypeError", left)
    ELSE [err |-> "none", made |-> "new", obj |-> "None",
          cls |-> Get(full.items, "data_class"),
          args |-> Pop(full.items, "data_class"), left |-> left]

\* lines 156-186, for the dict named that lines 131-153 came to
CreateNamed(sample, kwargs, named) ==
    The({IF named.err # "none" THEN NoResult(named.err, LeftOf(kwargs, inplace))
         ELSE The({Instantiated(full, LeftOf(kwargs, inplace)) :
                      full \in Completed(sample, inplace,
                                         Get(named.items, "data_keyword"))}) :
            inplace \in {PopKeyword(named)}})

CreateData(sample, name, kwargs) ==
    IF kwargs.tag = "data"
    THEN [err |-> "none", made |-> "given", obj |-> kwargs.val, cls |-> "None",
          args |-> {}, left |-> kwargs]
    ELSE The({CreateNamed(sample, kwargs, named) :
                 named \in {AltInputNames(sourced) :
                     sourced \in {AllPossibleSource(converted) :
                         converted \in {CaseThree(name, kwargs)}}}})

\* ---- Sample
MaxObjects == 2

default_profiles == {"shapemap", "dmsmap", "dancemap", "rnpmap"}

\* faulty variant of SetDataOn: the inputs are recorded before create_data
\* is called
SetDataOnRecordsFirst(d, i, n, data_keyword, kwargs, overwrite_keyword) ==
    IF Has(i, data_keyword) /\ ~overwrite_keyword
    THEN [err |-> "ValueError", data |-> d, inputs |-> i, created |-> n]
    ELSE The({
         LET obj == IF r.made = "given" THEN r.obj ELSE ObjectIds[n + 1]
             stored == Put(d, data_keyword, obj)
         IN  IF r.err # "none"
             THEN [err |-> r.err, data |-> d, inputs |-> Put(i, data_keyword, kwargs),
                   created |-> n]
             ELSE [err |-> "none",
                   data |-> IF data_keyword \in default_profiles /\ ~Has(stored, "profile")
                            THEN Put(stored, "profile", obj) ELSE stored,
                   inputs |-> Put(i, data_keyword, r.left),
                   created |-> IF r.made = "new" THEN n + 1 ELSE n] :
            r \in {CreateData(SampleWith(d), data_keyword, kwargs)}})

\* Sample.set_data on a Sample whose registries are d and i, when n objects
\* exist: the exception or "none", and the registries and count afterwards
SetDataOn(d, i, n, data_keyword, kwargs, overwrite_keyword) ==
    IF Has(i, data_keyword) /\ ~overwrite_keyword
    THEN [err |-> "ValueError", data |-> d, inputs |-> i, created |-> n]
    ELSE The({
         LET obj == IF r.made = "given" THEN r.obj ELSE ObjectIds[n + 1]
             stored == Put(d, data_keyword, obj)
         IN  IF r.err # "none"
             THEN [err |-> r.err, data |-> d, inputs |-> i, created |-> n]
             ELSE [err |-> "none",
                   data |-> IF data_keyword \in default_profiles /\ ~Has(stored, "profile")
                            THEN Put(stored, "profile", obj) ELSE stored,
                   inputs |-> Put(i, data_keyword, r.left),
                   created |-> IF r.made = "new" THEN n + 1 ELSE n] :
            r \in {CreateData(SampleWith(d), data_keyword, kwargs)}})

\* the keywords and arguments the calls are made with
KeywordsUsed == {"shapemap", "motif", "my_name"}
KeywordsSet == {"shapemap", "motif"}
ExistingObjects == {ObjectIds[k] : k \in 1..created}
KwargsUsed ==
    { StrArg("file"),
      DictArg({<<"shapemap", "file">>}),
      DictArg({<<"data_class", "shapemap">>, <<"input_data", "file">>}),
      DictArg({<<"input_data", "file">>, <<"color", "red">>}),
      DictArg({<<"input_data", "file">>, <<"seq_source", "profile">>,
               <<"color", "red">>}) }
        \cup {DataArg(o) : o \in ExistingObjects}
KwargsSet ==
    { StrArg("file"),
      DictArg({<<"input_data", "file">>, <<"seq_source", "profile">>,
               <<"color", "red">>}) }
        \cup {DataArg(o) : o \in ExistingObjects \cap {ObjectIds[1]}}
SourcesUsed ==
    {NoneArg, StrArg("AUCG"), StrArg("AUNG"), StrArg("shapemap"), ListArg}
        \cup {DataArg(o) : o \in ExistingObjects}

Called(op, self, name, arg, more, overwrite, e, ret) ==
    [op |-> op, self |-> self, name |-> name, arg |-> arg, more |-> more,
     overwrite |-> overwrite, err |-> e, ret |-> ret, cls |-> "None", args |-> {}]

\* Sample(sample=s, inherit=inh): the registries start as those of inh
SampleInit(s) ==
    /\ s \notin constructed
    /\ \E inh \in constructed \cup {"None"} :
         /\ constructed' = constructed \cup {s}
         /\ data' = [data EXCEPT ![s] = IF inh = "None" THEN {} ELSE Merge({}, data[inh])]
         /\ inputs' = [inputs EXCEPT
                         ![s] = IF inh = "None" THEN {} ELSE Merge({}, inputs[inh])]
         /\ inherit' = [inherit EXCEPT ![s] = inh]
         /\ call' = Called("Sample", s, "None", NoneArg, NoneArg, FALSE, "none", s)
    /\ UNCHANGED <<parent, dance, created>>
    /\ UNCHANGED <<plot_vars, fit_vars, grid_vars>>

\* s.set_data(data_keyword, kwargs, overwrite_keyword)
SetData(s) ==
    /\ s \in constructed
    /\ \E data_keyword \in KeywordsSet, kwargs \in KwargsSet, overwrite \in BOOLEAN :
         \E r \in {SetDataOn(data[s], inputs[s], created, data_keyword, kwargs,
                             overwrite)} :
             /\ r.created <= MaxObjects
             /\ data' = [data EXCEPT ![s] = r.data]
             /\ inputs' = [inputs EXCEPT ![s] = r.inputs]
             /\ created' = r.created
             /\ call' = Called("set_data", s, data_keyword, kwargs, NoneArg, overwrite,
                               r.err, "None")
    /\ UNCHANGED <<constructed, parent, dance, inherit>>
    /\ UNCHANGED <<plot_vars, fit_vars, grid_vars>>

\* p.init_dance(filepath) when the file names n components, n at most 1:
\* the component is Sample(sample=.., dancemap={filepath, component}) and,
\* where the file of rings exists, ringmap=..; its parent is p
InitDance(p, c) ==
    /\ p \in constructed
    /\ c \notin constructed
    /\ \E n \in {0, 1}, rings \in BOOLEAN :
         IF n = 0
         THEN /\ dance' = [dance EXCEPT ![p] = <<>>]
              /\ call' = Called("init_dance", p, "None", NoneArg, NoneArg, FALSE,
                                "none", "None")
              /\ UNCHANGED <<constructed, data, inputs, parent, created>>
         ELSE \E one \in {SetDataOn({}, {}, created, "dancemap",
                                      DictArg({<<"filepath", "file">>,
                                               <<"component", "0">>}), FALSE)} :
              \E two \in {IF rings
                          THEN SetDataOn(one.data, one.inputs, one.created, "ringmap",
                                         StrArg("file"), FALSE)
                          ELSE one} :
                  /\ two.err = "none"
                  /\ two.created <= MaxObjects
                  /\ constructed' = constructed \cup {c}
                  /\ data' = [data EXCEPT ![c] = two.data]
                  /\ inputs' = [inputs EXCEPT ![c] = two.inputs]
                  /\ parent' = [parent EXCEPT ![c] = p]
                  /\ dance' = [dance EXCEPT ![p] = <<c>>]
                  /\ created' = two.created
                  /\ call' = Called("init_dance", p, "None", NoneArg, NoneArg, FALSE,
                                    "none", "None")
    /\ UNCHANGED inherit
    /\ UNCHANGED <<plot_vars, fit_vars, grid_vars>>

\* s.get_data(key): the exception or "none", and what is returned
GetDataOf(s, key) ==
    IF key.tag = "str" /\ key.val = "label" THEN [err |-> "none", ret |-> s]
    ELSE IF key.tag = "none" THEN [err |-> "none", ret |-> "None"]
    ELSE IF key.tag = "data" THEN [err |-> "none", ret |-> key.val]
    ELSE IF key.tag = "str" /\ Has(data[s], key.val)
         THEN [err |-> "none", ret |-> Get(data[s], key.val)]
    ELSE IF parent[s] = "None" THEN [err |-> "none", ret |-> "None"]
    ELSE IF key.tag # "str" THEN [err |-> "TypeError", ret |-> "None"]
    ELSE IF Has(data[parent[s]], key.val)
         THEN [err |-> "none", ret |-> Get(data[parent[s]], key.val)]
    ELSE [err |-> "none", ret |-> "None"]

KeysUsed ==
    {NoneArg, ListArg, StrArg("label"), StrArg("profile"), StrArg("ringmap")}
        \cup {DataArg(o) : o \in ExistingObjects}

GetData(s) ==
    /\ s \in constructed
    /\ \E key \in KeysUsed :
         \E r \in {GetDataOf(s, key)} :
             call' = Called("get_data", s, "None", key, NoneArg, FALSE, r.err, r.ret)
    /\ UNCHANGED <<constructed, data, inputs, parent, dance, inherit, created>>
    /\ UNCHANGED <<plot_vars, fit_vars, grid_vars>>

\* get_sequence(seq_source, sample, default)
GetSequenceCall ==
    /\ \E seq_source \in SourcesUsed, s \in constructed \cup {"None"},
          default \in {NoneArg, StrArg("AUCG")} \cup {DataArg(o) : o \in ExistingObjects} :
         \E r \in {GetSequenceOf(seq_source,
                                  IF s = "None" THEN NoSample ELSE SampleWith(data[s]),
                                  default)} :
             call' = Called("get_sequence", s, "None", seq_source, default, FALSE,
                            r.err, r.ret)
    /\ UNCHANGED <<constructed, data, inputs, parent, dance, inherit, created>>
    /\ UNCHANGED <<plot_vars, fit_vars, grid_vars>>

\* create_data(sample=s, name=kwargs)
CreateDataCall ==
    /\ \E name \in KeywordsUsed, kwargs \in KwargsUsed, s \in constructed \cup {"None"} :
         \E r \in {CreateData(IF s = "None" THEN NoSample ELSE SampleWith(data[s]),
                               name, kwargs)} :
             /\ r.made = "new" => created < MaxObjects
             /\ created' = IF r.made = "new" THEN created + 1 ELSE created
             /\ call' = [Called("create_data", s, name, kwargs, NoneArg, FALSE, r.err,
                                IF r.made = "new" THEN ObjectIds[created + 1]
                                ELSE r.obj)
                           EXCEPT !.cls = r.cls, !.args = r.args]
    /\ UNCHANGED <<constructed, data, inputs, parent, dance, inherit>>
    /\ UNCHANGED <<plot_vars, fit_vars, grid_vars>>

\* the state before any Data is built or aligned
NothingBuilt ==
    /\ in_profile = <<>>
    /\ in_ct = <<>>
    /\ route = "none"
    /\ sequence = [o \in Objs |-> Unset]
    /\ alignment = NoAlignment
    /\ alignment_map = Unset
    /\ values = Unset
    /\ yerr = Unset
    /\ written = <<>>
    /\ err = "none"
    /\ pc = "start"

InitSample == NothingBuilt /\ NoSamples /\ NothingFitted /\ NothingPlotted

NextSample ==
    \/ SampleInit("P")
    \/ SampleInit("S")
    \/ SetData("P")
    \/ SetData("S")
    \/ InitDance("P", "S")
    \/ GetData("P")
    \/ GetData("S")

SpecSample == InitSample /\ [][NextSample]_vars

\* the functions create_data and get_sequence, called with no Sample, with
\* an empty one and with one that holds a profile
InitCalls ==
    /\ NothingBuilt
    /\ NothingFitted
    /\ NothingPlotted
    /\ constructed \in {{}, {"P"}}
    /\ \/ data = [s \in Samples |-> {}] /\ created = 0
       \/ /\ constructed = {"P"}
          /\ data = [s \in Samples |->
                       IF s = "P" THEN {<<"shapemap", "d1">>, <<"profile", "d1">>}
                       ELSE {}]
          /\ created = 1
    /\ inputs = [s \in Samples |->
                   IF Has(data[s], "shapemap") THEN {<<"shapemap", StrArg("file")>>}
                   ELSE {}]
    /\ parent = [s \in Samples |-> "None"]
    /\ dance = [s \in Samples |-> <<>>]
    /\ inherit = [s \in Samples |-> "None"]
    /\ call = Called("none", "None", "None", NoneArg, NoneArg, FALSE, "none", "None")

NextCalls ==
    \/ GetSequenceCall
    \/ CreateDataCall

SpecCalls == InitCalls /\ [][NextCalls]_vars

\* ======================================================================
\* fit_data (rnavigate.py, plotting_functions.py), AP.add_patches (arc.py)
\* ======================================================================
\* the index maps a SequenceAlignment can stand for: slot 0 is 0, a
\* position maps to 0 or to a position, and the mapped ones keep their
\* order
ForwardMaps ==
    {m \in [0..FitLen -> 0..FitLen] :
        /\ m[0] = 0
        /\ \A i, j \in 1..FitLen : (i < j /\ m[i] # 0 /\ m[j] # 0) => m[i] < m[j]}

\* AlignmentChain: position i taken through the maps of chain in order,
\* 0 as soon as one of them maps it to 0
RECURSIVE Through(_, _)
Through(chain, i) ==
    IF chain = <<>> \/ i = 0 THEN i
    ELSE Through(Tail(chain), Head(chain)[i])
AlignmentChain(chain) == [i \in 0..FitLen |-> Through(chain, i)]

\* get_aligned_data on pairs: both ends are mapped, and a pair with an
\* unmapped end is dropped
GetAlignedDataKeepsUnmapped(pairs, m) == {<<m[p[1]], m[p[2]]>> : p \in pairs}
GetAlignedData(pairs, m) ==
    {<<m[p[1]], m[p[2]]>> : p \in {q \in pairs : m[q[1]] # 0 /\ m[q[2]] # 0}}

\* get_ij_colors(): the pairs (i, j) of a Data, each with a color
GetIjColors(item) == item.pairs

\* the alignments fit_data chains when second_alignment is given
ChainedSecondFirst(first, second) == <<second, first>>
Chained(first, second) == <<first, second>>

NotFitted(e) == [err |-> e, out |-> NoneItem, alignment |-> Identity]

\* fit_data(data_list, fit_to, second_alignment) of the module named,
\* where first is SequenceAlignment(data_list, fit_to) for the Data held
RECURSIVE FitDataOf(_, _, _, _)
FitDataOf(module, item, first, second) ==
    IF item.kind = "dict" \/ (item.kind = "list" /\ module = "plotting_functions")
    THEN LET each == [k \in 1..Len(item.elems) |->
                         FitDataOf(module, item.elems[k], first, NoSecond)]
             failed == {k \in 1..Len(item.elems) : each[k].err # "none"}
         IN  IF failed # {}
             THEN NotFitted(each[CHOOSE k \in failed : \A l \in failed : k <= l].err)
             ELSE [err |-> "none", alignment |-> Identity,
                   out |-> Container(item.kind,
                                     [k \in 1..Len(item.elems) |-> each[k].out])]
    ELSE IF item.kind = "list"
    THEN IF item.elems = <<>>
         THEN [err |-> "none", alignment |-> Identity, out |-> item]
         ELSE NotFitted("TypeError")
    ELSE IF item.kind = "none" THEN NotFitted("none")
    ELSE IF item.kind = "pdb" /\ module = "plotting_functions"
    THEN [err |-> "none", alignment |-> Identity, out |-> item]
    ELSE IF item.kind \in {"data", "pdb"}
    THEN LET alignment1 == IF second.given
                           THEN AlignmentChain(Chained(first, second.map))
                           ELSE first
         IN  [err |-> "none", alignment |-> alignment1,
              out |-> Leaf(item.kind, GetAlignedData(item.pairs, alignment1))]
    ELSE NotFitted("none")

\* the arguments the calls are made with
\* the pairs are given all with i < j or all with j < i
PairsUpward ==
    {ps \in SUBSET {p \in (1..FitLen) \X (1..FitLen) : p[1] < p[2]} :
        Cardinality(ps) <= MaxPairs}
PairsUsed == PairsUpward \cup {{<<p[2], p[1]>> : p \in ps} : ps \in PairsUpward}
ItemsUsed ==
    {NoneItem, Leaf("other", {}), Leaf("pdb", {}), Container("list", <<>>)}
        \cup {Leaf("data", ps) : ps \in PairsUsed}
        \cup {Container(k, <<Leaf("data", ps), NoneItem>>) :
                 k \in {"dict", "list"}, ps \in PairsUsed}
Modules == {"rnavigate", "plotting_functions"}

\* fit_data(item, fit_to, second_alignment)
FitData ==
    /\ fitted.module = "none"
    /\ \E module \in Modules, item \in ItemsUsed :
         \E r \in {FitDataOf(module, item, first_alignment, second_alignment)} :
             /\ data_list' = item
             /\ fitted' = [module |-> module, err |-> r.err, out |-> r.out,
                           alignment |-> r.alignment]
    /\ UNCHANGED <<first_alignment, second_alignment, region, patches>>
    /\ UNCHANGED <<plot_vars, sample_vars, grid_vars>>

\* what plot_data passes to add_patches: a fitted Data, or None
Plottable ==
    IF fitted.out.kind \in {"dict", "list"}
    THEN {fitted.out.elems[k] : k \in 1..Len(fitted.out.elems)}
    ELSE {fitted.out}

\* twice the center and twice the radius of the Wedge of lines 91-103
Wedge(i, j, panel) ==
    [i |-> i, j |-> j, center2 |-> i + j, radius2 |-> 1 + (j - i),
     theta1 |-> IF panel = "top" THEN 0 ELSE 180,
     theta2 |-> IF panel = "top" THEN 180 ELSE 360]

\* the wedges add_patches collects from the pairs ij for the region mn..mx
PatchesOf(ij, mn, mx, panel) ==
    LET flipped == {IF p[2] < p[1] THEN <<p[2], p[1]>> ELSE p : p \in ij}
        kept == {p \in flipped :
                    ~((p[1] < mn /\ p[2] < mn) \/ (p[1] > mx /\ p[2] > mx))}
    IN  {Wedge(p[1], p[2], panel) : p \in kept}

\* AP.add_patches(ax, data, panel, annotation_gap) on a plot of region r
AddPatches ==
    /\ fitted.module # "none"
    /\ fitted.err = "none"
    /\ \E item \in Plottable, r \in {<<1, FitLen>>, <<FitLen, FitLen>>},
          panel \in {"top", "bottom"} :
         /\ item.kind \in {"data", "pdb", "none"}
         /\ region' = r
         /\ patches' = IF item.kind = "none" THEN {}
                       ELSE PatchesOf(GetIjColors(item), r[1], r[2], panel)
    /\ UNCHANGED <<first_alignment, second_alignment, data_list, fitted>>
    /\ UNCHANGED <<plot_vars, sample_vars, grid_vars>>

InitFit ==
    /\ NothingBuilt
    /\ NoSamples
    /\ NothingPlotted
    /\ first_alignment \in ForwardMaps
    /\ second_alignment \in {NoSecond} \cup {Second(m) : m \in ForwardMaps}
    /\ data_list = NoneItem
    /\ fitted = [module |-> "none", err |-> "none", out |-> NoneItem,
                 alignment |-> Identity]
    /\ region = <<1, FitLen>>
    /\ patches = {}

NextFit ==
    \/ FitData
    \/ AddPatches

SpecFit == InitFit /\ [][NextFit]_vars

\* ------------------------------------------------- multi-panel plotting
\* src/rnavigate/plots/plots.py, src/rnavigate/plots/arc.py and the two
\* versions of plot_arcs and plot_alignment, in src/rnavigate/rnavigate.py
\* and in src/rnavigate/plotting_functions.py
MaxSamples == 3
MaxFilters == 3

\* a keyword argument that was not given, or is None
NotGiven == 0

\* math.ceil(a / b) for positive integers
Ceil(a, b) == (a + b - 1) \div b

\* Plot.get_rows_columns: the pair (rows, cols) of a plot of `length` panels
GetRowsColumns(length, rows, cols) ==
    IF rows # NotGiven /\ cols # NotGiven THEN <<rows, cols>>
    ELSE IF rows # NotGiven THEN <<rows, Ceil(length, rows)>>
    ELSE IF cols # NotGiven THEN <<Ceil(length, cols), cols>>
    ELSE IF length < 10
         THEN <<<<0, 0>>, <<1, 1>>, <<1, 2>>, <<1, 3>>, <<2, 2>>,
                <<2, 3>>, <<2, 3>>, <<3, 3>>, <<3, 3>>, <<3, 3>>>>[length + 1]
    ELSE <<Ceil(length, 4), 4>>

\* Plot.__init__(num_samples, rows, cols): the object after construction
PlotInit(num_samples, rows, cols) ==
    [columns |-> GetRowsColumns(num_samples, rows, cols)[2],
     i |-> 0,
     length |-> num_samples,
     rows |-> GetRowsColumns(num_samples, rows, cols)[1]]

\* Plot.get_ax(i): row and column of the axis, and the IndexError of
\* self.axes[row, col] outside the grid
GetAx(fig, i) ==
    [col |-> i % fig.columns,
     err |-> IF i \div fig.columns >= fig.rows THEN "IndexError" ELSE "none",
     row |-> i \div fig.columns]

\* AP.plot_data for sample s and filter f on st = [figure, panels, err]:
\* the axis is get_ax() at the counter, then self.i += 1
PlotData(st, s, f) ==
    IF st.err # "none" THEN st
    ELSE IF GetAx(st.figure, st.figure.i).err # "none"
         THEN [st EXCEPT !.err = GetAx(st.figure, st.figure.i).err]
    ELSE [st EXCEPT !.figure.i = @ + 1,
                    !.panels = Append(@, [col |-> GetAx(st.figure, st.figure.i).col,
                                          filter |-> f,
                                          row |-> GetAx(st.figure, st.figure.i).row,
                                          sample |-> s])]

\* for sample in samples: for filt in filters: plot.plot_data(...), from
\* sample s and filter f (both counted from 0)
RECURSIVE PlotLoop(_, _, _, _, _)
PlotLoop(st, s, f, num, numf) ==
    IF s >= num THEN st
    ELSE IF f >= numf THEN PlotLoop(st, s + 1, 0, num, numf)
    ELSE The({PlotLoop(n, s, f + 1, num, numf) : n \in {PlotData(st, s, f)}})

\* outcome of a plotting call that raised e before a plot was built
Raised(e) == [err |-> e, figure |-> NoFigure, panels |-> <<>>]

\* the plot built for num samples and numf filters with the rows and
\* columns of plot_kwargs, and its panels
Panels(num, numf, rows, cols) ==
    PlotLoop([err |-> "none", figure |-> PlotInit(num * numf, rows, cols),
              panels |-> <<>>], 0, 0, num, numf)

\* rnavigate.py plot_arcs(samples, filters=filters, plot_kwargs=pk) for num
\* samples and a list of numf filters (NotGiven: filters is None)
PlotArcsRnavigate(num, numf, pk) ==
    IF numf # NotGiven /\ num > 1 /\ pk.rows = NotGiven /\ pk.cols = NotGiven
    THEN Panels(num, numf, num, numf)
    ELSE IF numf = NotGiven THEN Panels(num, 1, pk.rows, pk.cols)
    ELSE Panels(num, numf, pk.rows, pk.cols)

\* plotting_functions.py plot_arcs: replace_sentinels hashes its arguments
\* (a dict given as plot_kwargs is unhashable) and returns a list, which
\* interactions_filter and interactions2_filter are bound to whole: with
\* filters None the dict | list raises, and otherwise the plot is built and
\* the first filter_interactions(interactions2, **interactions2_filter) of
\* the loop raises
PlotArcsPlottingFunctions(num, numf, pk) ==
    IF pk.given THEN Raised("TypeError")
    ELSE IF numf = NotGiven THEN Raised("TypeError")
    ELSE IF numf > 1 /\ num > 1
         THEN [err |-> "TypeError", figure |-> PlotInit(num * numf, numf, num),
               panels |-> <<>>]
    ELSE [err |-> "TypeError", figure |-> PlotInit(num * numf, pk.rows, pk.cols),
          panels |-> <<>>]

PlotModules == {"rnavigate", "plotting_functions"}
PlotArcsOf(module, num, numf, pk) ==
    IF module = "rnavigate" THEN PlotArcsRnavigate(num, numf, pk)
    ELSE PlotArcsPlottingFunctions(num, numf, pk)

\* the plot_kwargs the calls are made with: none, and {"rows": 1}
NoPlotKwargs == [cols |-> NotGiven, given |-> FALSE, rows |-> NotGiven]
PlotKwargsUsed == {NoPlotKwargs, [cols |-> NotGiven, given |-> TRUE, rows |-> 1]}

PlotArcs ==
    \E module \in PlotModules, num \in 1..MaxSamples,
       numf \in {NotGiven} \cup 1..MaxFilters, pk \in PlotKwargsUsed :
        LET r == PlotArcsOf(module, num, numf, pk) IN
            /\ figure' = r.figure
            /\ panels' = r.panels
            /\ aligned' = NoPair
            /\ plotted' = [data1 |-> <<>>, data2 |-> <<>>, err |-> r.err,
                           filters |-> numf, module |-> module, op |-> "plot_arcs",
                           plot_kwargs |-> pk, samples |-> num]
            /\ UNCHANGED <<plot_vars, sample_vars, fit_vars>>

\* Plot.add_sample(sample=None, data1=o1, data2=o2, label=..): Data objects
\* are passed through unchanged, so plot_data is called with the pair
AddSample(o1, o2) == <<o1, o2>>

\* rnavigate.py plot_alignment(data1, data2) with data1 = (s1, k1) and
\* data2 = (s2, k2): add_sample passes Data objects through to plot_data
PlotAlignmentRnavigate(s1, k1, s2, k2) ==
    IF ~Has(data[s1], k1) \/ ~Has(data[s2], k2)
    THEN [aligned |-> NoPair, err |-> "KeyError",
          figure |-> PlotInit(1, NotGiven, NotGiven)]
    ELSE [aligned |-> AddSample(Get(data[s1], k1), Get(data[s2], k2)),
          err |-> "none",
          figure |-> PlotInit(1, NotGiven, NotGiven)]

\* plotting_functions.py plot_alignment: plot_kwargs is bound to the list
\* replace_sentinels returns, and plots.Alignment(num_samples=1,
\* **plot_kwargs) raises TypeError on it; the alignment after it is built
\* from data1[0].data[data1[1]] twice
PlotAlignmentPlottingFunctions(s1, k1, s2, k2) ==
    [aligned |-> NoPair, err |-> "TypeError", figure |-> NoFigure]

PlotAlignmentOf(module, s1, k1, s2, k2) ==
    IF module = "rnavigate" THEN PlotAlignmentRnavigate(s1, k1, s2, k2)
    ELSE PlotAlignmentPlottingFunctions(s1, k1, s2, k2)

KeysPlotted == {"shapemap", "profile", "ct"}

PlotAlignment ==
    \E module \in PlotModules, s1 \in constructed, s2 \in constructed,
       k1 \in KeysPlotted, k2 \in KeysPlotted :
        LET r == PlotAlignmentOf(module, s1, k1, s2, k2) IN
            /\ figure' = r.figure
            /\ panels' = <<>>
            /\ aligned' = r.aligned
            /\ plotted' = [data1 |-> <<s1, k1>>, data2 |-> <<s2, k2>>,
                           err |-> r.err, filters |-> NotGiven, module |-> module,
                           op |-> "plot_alignment", plot_kwargs |-> NoPlotKwargs,
                           samples |-> 0]
            /\ UNCHANGED <<plot_vars, sample_vars, fit_vars>>

\* two Samples that each hold a shapemap, which is their default profile
InitPlots ==
    /\ NothingBuilt
    /\ NothingFitted
    /\ NothingPlotted
    /\ constructed = Samples
    /\ data = [s \in Samples |->
                 IF s = "P" THEN {<<"shapemap", "d1">>, <<"profile", "d1">>}
                 ELSE {<<"shapemap", "d2">>, <<"profile", "d2">>}]
    /\ created = 2
    /\ inputs = [s \in Samples |-> {<<"shapemap", StrArg("file")>>}]
    /\ parent = [s \in Samples |-> "None"]
    /\ dance = [s \in Samples |-> <<>>]
    /\ inherit = [s \in Samples |-> "None"]
    /\ call = Called("none", "None", "None", NoneArg, NoneArg, FALSE, "none", "None")

NextPlots ==
    \/ PlotArcs
    \/ PlotAlignment

SpecPlots == InitPlots /\ [][NextPlots]_vars

\* ------------------------------------------------- notions of the claims
\* get_alignment_map has returned a map
Mapped == pc = "get_alignment_map" /\ err = "none"

\* plot_profile was called with a profile and got past get_alignment_map
Plotted == pc = "plot_profile" /\ alignment # NoAlignment

\* number of characters (not gaps) among the first c entries of a row
RECURSIVE CharsBefore(_, _)
CharsBefore(row, c) ==
    IF c = 0 THEN 0
    ELSE CharsBefore(row, c - 1) + (IF row[c] = Gap THEN 0 ELSE 1)

\* the pairs <<source position, target position>> the alignment puts in
\* one column
AlignedPairs(al) ==
    {<<CharsBefore(al.seqA, c), CharsBefore(al.seqB, c)>> :
        c \in {d \in 1..Len(al.seqA) : al.seqA[d] # Gap /\ al.seqB[d] # Gap}}

\* the source position aligned to target position t, 0 when there is none
SourceAlignedTo(al, t) ==
    IF \E p \in AlignedPairs(al) : p[2] = t
    THEN (CHOOSE p \in AlignedPairs(al) : p[2] = t)[1]
    ELSE 0

\* the column walk of the specification: source counter s and target
\* counter t start at 1; fi is forward_index so far
RECURSIVE SpecWalk(_, _, _, _, _, _)
SpecWalk(seqA, seqB, c, s, t, fi) ==
    IF c > Len(seqA) THEN fi
    ELSE IF seqA[c] = Gap THEN SpecWalk(seqA, seqB, c + 1, s, t + 1, fi)
    ELSE IF seqB[c] = Gap THEN SpecWalk(seqA, seqB, c + 1, s + 1, t, Append(fi, 0))
    ELSE SpecWalk(seqA, seqB, c + 1, s + 1, t + 1, Append(fi, t))

SpecForwardIndex(al) == SpecWalk(al.seqA, al.seqB, 1, 1, 1, <<0>>)

\* the entries of a map that are not the sentinel, as list indices 0..
MappedIndices(am) == {k \in 0..(Len(am) - 1) : am[k + 1] # 0}

\* the gap penalties of an alignment as the claim states them (in tenths),
\* column by column: a gap column is free before the first and after the
\* last character of its row, costs 0.1 after a gap column of the same
\* row, and 1 otherwise
GapColumnPenalty(row, other, c) ==
    IF row[c] # Gap THEN 0
    ELSE IF CharsBefore(row, c) = 0 \/ CharsBefore(row, c) = CharsBefore(row, Len(row))
         THEN 0
    ELSE IF c > 1 /\ row[c - 1] = Gap THEN 0 - 1
    ELSE 0 - 10

RECURSIVE GapPenaltyUpTo(_, _)
GapPenaltyUpTo(al, c) ==
    IF c = 0 THEN 0
    ELSE GapPenaltyUpTo(al, c - 1) + GapColumnPenalty(al.seqA, al.seqB, c)
                                   + GapColumnPenalty(al.seqB, al.seqA, c)

GapPenaltyOf(al) == GapPenaltyUpTo(al, Len(al.seqA))

IdenticalColumns(al) == Cardinality({c \in 1..Len(al.seqA) : al.seqA[c] = al.seqB[c]})

IsExample == sequence["profile"] = ExampleSource /\ sequence["ct"] = ExampleTarget

\* ---------------------------------------------------------------- claims
\* C1: for every pair of non-empty sequences the list get_alignment_map
\* returns has length source.length + 1 and slot 0 is 0.  The code appends
\* one entry per target character, so this is violated.
C1_LengthIsSourcePlusOne ==
    Mapped => /\ Len(alignment_map) = Len(sequence["profile"]) + 1
              /\ alignment_map[1] = 0

C3_EqualsSpecWalk ==
    Mapped => alignment_map = SpecForwardIndex(alignment)

\* C4: after plot_profile the output array of length target.length holds
\* NaN at every target position without an aligned source position and the
\* value of the aligned source position elsewhere, and sentinel entries of
\* the map cause no write.
C4_ScatterIsExact ==
    Plotted =>
        /\ err = "none"
        /\ \A t \in 1..Len(sequence["ct"]) :
              values[t - 1] = SourceAlignedTo(alignment, t)
        /\ Len(written) = Cardinality(MappedIndices(alignment_map))

C6_MappedEntriesIncrease ==
    alignment_map # Unset =>
        \A i1, i2 \in MappedIndices(alignment_map) :
            i1 < i2 => alignment_map[i1 + 1] < alignment_map[i2 + 1]

C6_Witness ==
    Mapped /\ Cardinality(MappedIndices(alignment_map)) >= 2
           /\ \E k \in 2..(Len(alignment_map) - 1) : alignment_map[k] = 0

\* C7: in every returned map no two distinct indices with entries other
\* than 0 hold the same value.
C7_MappedEntriesDistinct ==
    alignment_map # Unset =>
        \A i1, i2 \in MappedIndices(alignment_map) :
            alignment_map[i1 + 1] = alignment_map[i2 + 1] => i1 = i2

C7_Witness ==
    Plotted /\ Cardinality(MappedIndices(alignment_map)) >= 2
            /\ Len(sequence["profile"]) # Len(sequence["ct"])

\* C8 as stated: identical characters score 0 like a mismatch, so the score
\* of the alignment is its gap penalties alone.
C8_OnlyGapsScoreAsStated ==
    alignment # NoAlignment => alignment.score = GapPenaltyOf(alignment)

\* C8 amended: a column of two identical characters scores 1 and a
\* mismatched column 0, so the score of the alignment is the number of its
\* identical columns plus its gap penalties (open 1, extend 0.1, terminal
\* gaps free); scores in tenths.
C8_MatchesAndGapsScore ==
    alignment # NoAlignment =>
        alignment.score = 10 * IdenticalColumns(alignment) + GapPenaltyOf(alignment)

C8_Witness ==
    Mapped /\ IdenticalColumns(alignment) >= 1 /\ GapPenaltyOf(alignment) < 0

\* C9 as stated: get_alignment_map with a source or target of zero length
\* fails with an AlignmentError and returns no map.
C9_EmptyFailsAsStated ==
    (pc = "get_alignment_map"
       /\ (Len(sequence["profile"]) = 0 \/ Len(sequence["ct"]) = 0)) =>
        err = "AlignmentError" /\ alignment_map = Unset

\* C9 amended: get_alignment_map with a source or target of zero length
\* fails with an IndexError (alignment[0] of the empty list of alignments)
\* and returns no map.
C9_EmptyFailsWithIndexError ==
    (pc = "get_alignment_map"
       /\ (Len(sequence["profile"]) = 0 \/ Len(sequence["ct"]) = 0)) =>
        err = "IndexError" /\ alignment_map = Unset

C9_Witness ==
    /\ pc = "get_alignment_map" /\ err = "IndexError"
    /\ route = "get_sequence"
    /\ Len(sequence["profile"]) = 0 /\ Len(sequence["ct"]) > 0

\* C10: a sequence object built from a raw string stores the string
\* uppercased with T replaced by U, as read_fasta does.  Data.__init__ and
\* get_sequence store the string as given, so this is violated.
C10_RawStringIsNormalized ==
    (route \in {"sequence", "get_sequence"} /\ sequence["profile"] # Unset) =>
        sequence["profile"] = Normalize(in_profile)

SampleOfCall == IF call.self = "None" THEN NoSample ELSE SampleWith(data[call.self])

\* what a create_data call came to: exception, class called, arguments
Outcome(r) == <<r.err, r.cls, r.args>>

\* C14: the syntaxes name={'data_class': K, 'input_data': X}, name={K: X}
\* and K=X of create_data come to the same data class and the same
\* constructor arguments
C14_ThreeSyntaxesAgree ==
    (/\ call.op = "create_data"
     /\ ~Has(data_keyword_defaults, call.name)
     /\ call.arg.tag = "dict"
     /\ Has(call.arg.items, "data_class")
     /\ Has(call.arg.items, "input_data")) =>
        LET K == Get(call.arg.items, "data_class")
            X == Get(call.arg.items, "input_data")
        IN  /\ Outcome(call) = Outcome(CreateData(SampleOfCall, call.name,
                                                  DictArg({<<K, X>>})))
            /\ Outcome(call) = Outcome(CreateData(SampleOfCall, K, StrArg(X)))
            /\ call.err = "none"

\* the dict a create_data call passes on, when its name is a data keyword
\* and its argument names no other
ItemsGiven(arg) == IF arg.tag = "dict" THEN arg.items ELSE {}
NamesKeyword(name, arg) ==
    /\ Has(data_keyword_defaults, name)
    /\ arg.tag \in {"str", "dict"}
    /\ ~Has(ItemsGiven(arg), name)
    /\ ~Has(ItemsGiven(arg), "data_keyword")

\* the arguments the defaults of name require and arg leaves out
MissingRequired(name, arg) ==
    {kw \in RequiredArguments(Get(data_keyword_defaults, name)) :
        /\ ~Has(ItemsGiven(arg), kw)
        /\ kw = "seq_source" =>
              ~Has(ItemsGiven(arg), "sequence") /\ ~Has(ItemsGiven(arg), "fasta")}

\* C15: create_data for a data keyword, called without an argument that
\* the keyword's defaults require, raises ValueError and does not
\* instantiate the data class
C15_MissingRequiredIsValueError ==
    (/\ call.op = "create_data"
     /\ NamesKeyword(call.name, call.arg)
     /\ MissingRequired(call.name, call.arg) # {}) =>
        call.err = "ValueError" /\ call.cls = "None"

\* C16: a Sample constructed with inherit=P and P see the same data under
\* every keyword, whatever was done to either since
C16_InheritSharesData ==
    \A s \in constructed :
        inherit[s] # "None" => data[s] = data[inherit[s]]

GetDataAsStated(s, key) ==
    IF key.tag = "str" /\ key.val = "label" THEN s
    ELSE IF key.tag = "none" THEN "None"
    ELSE IF key.tag = "data" THEN key.val
    ELSE IF key.tag = "str" /\ Has(data[s], key.val) THEN Get(data[s], key.val)
    ELSE IF key.tag = "str" /\ parent[s] # "None" /\ Has(data[parent[s]], key.val)
         THEN Get(data[parent[s]], key.val)
    ELSE "None"

\* C18: get_data raises for no key, with or without a parent, and returns
\* the label, None, the object, the sample's data, the parent's data, or
\* None, in this order
C18_GetDataNeverRaises ==
    call.op = "get_data" =>
        call.err = "none" /\ call.ret = GetDataAsStated(call.self, call.arg)

\* C19: get_sequence raises ValueError when seq_source and default are
\* both None and when no object with a sequence can be obtained, a string
\* without a Sample included; a Data object or a key of sample.data yields
\* the object that exists, default standing in for a seq_source of None
C19_GetSequenceAsStated ==
    call.op = "get_sequence" =>
        LET src == IF call.arg.tag = "none" THEN call.more ELSE call.arg
            smp == SampleOfCall
        IN  IF src.tag = "data"
            THEN call.err = "none" /\ call.ret = src.val
            ELSE IF src.tag = "str" /\ ~smp.is_none /\ Has(smp.data, src.val)
            THEN call.err = "none" /\ call.ret = Get(smp.data, src.val)
            ELSE IF src.tag = "str" /\ ~smp.is_none /\ ValidChars(CharsOf(src.val))
            THEN call.err = "none" /\ call.ret = LiteralData(src.val)
            ELSE call.err = "ValueError"

\* a Data was fitted through the chain of first and second alignment
FittedThroughChain ==
    /\ fitted.module # "none"
    /\ fitted.err = "none"
    /\ data_list.kind = "data"
    /\ second_alignment.given

FittedData ==
    /\ fitted.module # "none"
    /\ fitted.err = "none"
    /\ data_list.kind = "data"

\* the source pairs that have an end the alignment used leaves unmapped
UnmappedPairs ==
    {p \in data_list.pairs : fitted.alignment[p[1]] = 0 \/ fitted.alignment[p[2]] = 0}

C20_ContainersFitLikeTopLevel ==
    (fitted.module # "none" /\ data_list.kind \in {"dict", "list"}) =>
        /\ fitted.err = "none"
        /\ fitted.out.kind = data_list.kind
        /\ Len(fitted.out.elems) = Len(data_list.elems)
        /\ \A k \in 1..Len(data_list.elems) :
              fitted.out.elems[k] =
                  FitDataOf(fitted.module, data_list.elems[k], first_alignment,
                            second_alignment).out

\* C23: every entry k >= 1 of a map that get_alignment_map returned is 0
\* or k itself
C23_EntryIsZeroOrOwnIndex ==
    alignment_map # Unset =>
        \A k \in 1..(Len(alignment_map) - 1) : alignment_map[k + 1] \in {0, k}

\* a target gap comes before an aligned column, so that the source
\* position of that column is not its index in the map
C23_Witness ==
    /\ Mapped
    /\ \E c1, c2 \in 1..Len(alignment.seqB) :
          /\ c1 < c2
          /\ alignment.seqB[c1] = Gap
          /\ alignment.seqA[c2] # Gap
          /\ alignment.seqB[c2] # Gap
    /\ \E k \in 1..(Len(alignment_map) - 1) : alignment_map[k + 1] = k

\* C24: every array index that plot_profile writes while scattering the
\* profile through get_alignment_map(ct) lies within 0..ct.length-1
C24_WrittenIndicesInBounds ==
    Plotted =>
        \A j \in 1..Len(written) :
            /\ written[j] >= 0
            /\ written[j] <= Len(sequence["ct"]) - 1

\* C25: in every Sample that holds a default profile, data["profile"] is
\* the object held under the default-profile keyword it was taken from,
\* also after that keyword was set again with overwrite_keyword=True
C25_ProfileIsDefaultKeyword ==
    \A s \in constructed :
        Has(data[s], "profile") =>
            \E k \in default_profiles :
                /\ Has(data[s], k)
                /\ Get(data[s], "profile") = Get(data[s], k)

\* C21: when plot_arcs is given more than one sample and more than one
\* filter (and no rows or columns in plot_kwargs), the grid has one row per
\* sample and one column per filter, and the panel of sample s and filter f
\* lies at row s, column f
C21_GridIsSamplesByFilters ==
    (/\ plotted.op = "plot_arcs"
     /\ plotted.samples > 1
     /\ plotted.filters > 1
     /\ plotted.plot_kwargs = NoPlotKwargs) =>
        /\ plotted.err = "none"
        /\ figure.rows = plotted.samples
        /\ figure.columns = plotted.filters
        /\ Len(panels) = plotted.samples * plotted.filters
        /\ \A j \in 1..Len(panels) :
              /\ panels[j].row = panels[j].sample
              /\ panels[j].col = panels[j].filter

\* C22: plot_alignment(data1, data2) on data that exist plots the
\* alignment of data1's data object with data2's data object
C22_AlignsData1WithData2 ==
    (/\ plotted.op = "plot_alignment"
     /\ Has(data[plotted.data1[1]], plotted.data1[2])
     /\ Has(data[plotted.data2[1]], plotted.data2[2])) =>
        /\ plotted.err = "none"
        /\ aligned = <<Get(data[plotted.data1[1]], plotted.data1[2]),
                       Get(data[plotted.data2[1]], plotted.data2[2])>>
====
